---- MODULE Spec2Model ----
(***************************************************************************)
(* A model of log_buffer::Logger (include/log_buffer/logger.hpp and        *)
(* src/logger.cpp): a writer bound to a caller-supplied byte buffer, with  *)
(* a write position, an overflow flag and an integer format.               *)
(*                                                                         *)
(* Bytes are numbers 0..255; characters are their ASCII codes.  The buffer *)
(* is a function from the indices 0..m_capacity-1 to bytes.                *)
(***************************************************************************)
EXTENDS Integers, Sequences, FiniteSets, TLC

(***************************************************************************)
(* Bounds of the model.                                                    *)
(***************************************************************************)
\* the largest buffer size passed to the constructor
MaxCap == 4
\* the longest raw byte array and the longest string passed to log()
MaxLen == 2
\* the integers passed to log() in Spec are -MaxNeg, 0 and MaxInt
MaxNeg == 1
MaxInt == 10
\* the largest buffer size passed to the constructor in SpecStream
StreamCap == 3
\* the width of std::size_t in SpecWrap, and the largest buffer size there
SizeBits == 3
WrapCap == 3
\* integers passed to log() in SpecConv range over -MaxConvNeg..MaxConv
MaxConvNeg == 130
MaxConv == 300
\* the buffer size passed to the constructor in SpecConv
ConvCap == 8

(***************************************************************************)
(* Characters.                                                             *)
(***************************************************************************)
NUL == 0
Minus == 45
Char0 == 48
CharA == 65
CharX == 88
Chara == 97
Charf == 102
Charx == 120

\* enum class IntFormat
IntFormat == {"Dec", "Hex", "HEX", "Oct"}

\* char temp_buffer[68]
TempBufferSize == 68

\* the width of T in log(T value): std::int16_t
IntBits == 16

\* what the caller's buffer holds when the Logger is constructed
FillBytes == {NUL, 204}

\* the raw data a caller passes: the bytes 1, 2, ..., k
RawInputs == {[i \in 1..k |-> i] : k \in 0..MaxLen}
\* the strings a caller passes: "", "A", "AB", ...
StrInputs == {[i \in 1..k |-> CharA + (i - 1)] : k \in 0..MaxLen}
IntInputs == {0 - MaxNeg, 0, MaxInt}
ConvInputs == (0 - MaxConvNeg)..MaxConv

\* the std::ios_base manipulators passed to operator<<
Manips == {"dec", "hex", "oct", "uppercase", "nouppercase"}

VARIABLES
    m_buffer,      \* the caller's buffer, index -> byte
    m_capacity,
    m_position,
    m_overflow,
    m_int_format,
    call,          \* the last call made: its name and its arguments
    ret,           \* what it returned: TRUE, FALSE, or "void" / "self"
    oob,           \* a store outside the buffer has happened
    entries,       \* the non-empty payloads committed since construction or the last reset()
    sum,           \* the required sizes of the appends that returned true since then, added up
    rejected       \* an append has returned false since then

vars == <<m_buffer, m_capacity, m_position, m_overflow, m_int_format,
          call, ret, oob, entries, sum, rejected>>

Call(kind, data, value) ==
    [kind |-> kind, data |-> data, value |-> value,
     fmt |-> IF kind = "log_int" THEN m_int_format ELSE "Dec", manip |-> "none"]

Appends == {"log_raw", "log_str", "log_int"}

(***************************************************************************)
(* The sizes and payloads the interface promises, stated from the call's   *)
(* arguments alone.                                                        *)
(***************************************************************************)
Abs(v) == IF v < 0 THEN 0 - v ELSE v

RECURSIVE Pow(_, _)
Pow(b, k) == IF k = 0 THEN 1 ELSE b * Pow(b, k - 1)

RefBase(fmt) == CASE fmt = "Dec" -> 10 [] fmt = "Oct" -> 8 [] OTHER -> 16

RefPrefix(fmt) ==
    CASE fmt = "Hex" -> <<Char0, Charx>>
      [] fmt = "HEX" -> <<Char0, CharX>>
      [] fmt = "Oct" -> <<Char0>>
      [] OTHER -> <<>>

\* the number of base-b digits of n >= 0
NumDigits(n, b) == CHOOSE k \in 1..40 : n < Pow(b, k) /\ (k = 1 \/ n >= Pow(b, k - 1))

LowerDigits == <<48, 49, 50, 51, 52, 53, 54, 55, 56, 57, 97, 98, 99, 100, 101, 102>>
UpperDigits == <<48, 49, 50, 51, 52, 53, 54, 55, 56, 57, 65, 66, 67, 68, 69, 70>>

\* the base-b digits of n >= 0, most significant first
RefDigits(n, b, alphabet) ==
    LET k == NumDigits(n, b)
    IN  [i \in 1..k |-> alphabet[((n \div Pow(b, k - i)) % b) + 1]]

SignOf(v) == IF v < 0 THEN <<Minus>> ELSE <<>>

\* the text of an integer: prefix, sign, digits of the magnitude
RefIntText(v, fmt) ==
    RefPrefix(fmt) \o SignOf(v)
        \o RefDigits(Abs(v), RefBase(fmt), IF fmt = "HEX" THEN UpperDigits ELSE LowerDigits)

\* the bytes a successful call commits
Payload(c) ==
    CASE c.kind = "log_raw" -> c.data
      [] c.kind = "log_str" -> c.data \o <<NUL>>
      [] c.kind = "log_int" -> RefIntText(c.value, c.fmt) \o <<NUL>>
      [] OTHER -> <<>>

\* the space a call requires
RequiredSize(c) ==
    CASE c.kind = "log_raw" -> Len(c.data)
      [] c.kind = "log_str" -> Len(c.data) + 1
      [] c.kind = "log_int" ->
            Len(RefPrefix(c.fmt)) + Len(SignOf(c.value))
                + NumDigits(Abs(c.value), RefBase(c.fmt)) + 1
      [] OTHER -> 0

(***************************************************************************)
(* The Logger.                                                             *)
(***************************************************************************)
bytes_written == m_position

\* a variant that forgets the bytes already written
remaining_capacity_IgnoringPosition == m_capacity

remaining_capacity ==
    IF m_capacity > m_position THEN m_capacity - m_position ELSE 0

has_overflowed == m_overflow

\* a variant that copies one byte too few
Memcpy_OneShort(buf, pos, data) ==
    [i \in DOMAIN buf |->
        IF i >= pos /\ i < pos + Len(data) - 1 THEN data[i - pos + 1] ELSE buf[i]]

\* a variant that copies to the start of the buffer: memcpy(m_buffer, data, size)
Memcpy_ToStart(buf, pos, data) ==
    [i \in DOMAIN buf |-> IF i < Len(data) THEN data[i + 1] ELSE buf[i]]

\* std::memcpy(m_buffer + pos, data, Len(data)); a store past the end of the
\* buffer is kept out of the function and recorded by OutOfBounds
Memcpy(buf, pos, data) ==
    [i \in DOMAIN buf |->
        IF i >= pos /\ i < pos + Len(data) THEN data[i - pos + 1] ELSE buf[i]]

\* a variant that also clears the byte after the one it stores
Store_ClearingNext(buf, pos, byte) ==
    [i \in DOMAIN buf |-> IF i = pos THEN byte ELSE IF i = pos + 1 THEN NUL ELSE buf[i]]

\* m_buffer[pos] = byte
Store(buf, pos, byte) ==
    [i \in DOMAIN buf |-> IF i = pos THEN byte ELSE buf[i]]

OutOfBounds(pos, n) == n > 0 /\ pos + n > m_capacity

\* the bookkeeping of a call that returned r
Observe(c, r) ==
    /\ call' = c
    /\ ret' = r
    /\ sum' = IF r = TRUE THEN sum + RequiredSize(c) ELSE sum
    /\ entries' = IF r = TRUE /\ Payload(c) # <<>>
                  THEN Append(entries, Payload(c)) ELSE entries
    /\ rejected' = (rejected \/ r = FALSE)

\* get_int_format()
get_int_format == m_int_format

\* the constructor call: the bytes the caller's buffer holds, and its size
ConstructCall(size, fill) ==
    [kind |-> "Logger", data |-> [i \in 1..size |-> fill], value |-> size,
     fmt |-> "Dec", manip |-> "none"]

\* a variant that clears the buffer: std::memset(buffer, 0, size)
Construct_ClearingBuffer(size, fill) ==
    /\ m_capacity = size
    /\ m_buffer = [i \in 0..(size - 1) |-> NUL]
    /\ m_position = 0
    /\ m_overflow = FALSE
    /\ m_int_format = "Dec"
    /\ call = ConstructCall(size, fill)
    /\ ret = "void"
    /\ oob = FALSE
    /\ entries = <<>>
    /\ sum = 0
    /\ rejected = FALSE

\* Logger(uint8_t* buffer, std::size_t size), the buffer holding size bytes fill
Construct(size, fill) ==
    /\ m_capacity = size
    /\ m_buffer = [i \in 0..(size - 1) |-> fill]
    /\ m_position = 0
    /\ m_overflow = FALSE
    /\ m_int_format = "Dec"
    /\ call = ConstructCall(size, fill)
    /\ ret = "void"
    /\ oob = FALSE
    /\ entries = <<>>
    /\ sum = 0
    /\ rejected = FALSE

Init == \E size \in 0..MaxCap, fill \in FillBytes : Construct(size, fill)

\* a variant whose successful write clears the overflow flag
LogRaw_ClearingOverflow(data) ==
    LET size == Len(data)
    IN  /\ IF size > remaining_capacity
           THEN /\ m_overflow' = TRUE
                /\ UNCHANGED <<m_buffer, m_position, oob>>
                /\ Observe(Call("log_raw", data, 0), FALSE)
           ELSE /\ m_buffer' = Memcpy(m_buffer, m_position, data)
                /\ oob' = (oob \/ OutOfBounds(m_position, size))
                /\ m_position' = m_position + size
                /\ m_overflow' = FALSE
                /\ Observe(Call("log_raw", data, 0), TRUE)
        /\ UNCHANGED <<m_capacity, m_int_format>>

\* a variant that refuses every write once the overflow flag is set
LogRaw_RefusingOnceOverflowed(data) ==
    LET size == Len(data)
    IN  /\ IF m_overflow \/ size > remaining_capacity
           THEN /\ m_overflow' = TRUE
                /\ UNCHANGED <<m_buffer, m_position, oob>>
                /\ Observe(Call("log_raw", data, 0), FALSE)
           ELSE /\ m_buffer' = Memcpy(m_buffer, m_position, data)
                /\ oob' = (oob \/ OutOfBounds(m_position, size))
                /\ m_position' = m_position + size
                /\ UNCHANGED m_overflow
                /\ Observe(Call("log_raw", data, 0), TRUE)
        /\ UNCHANGED <<m_capacity, m_int_format>>

\* a variant that rejects the write that fits exactly: size >= remaining_capacity()
LogRaw_RejectingExactFit(data) ==
    LET size == Len(data)
    IN  /\ IF size >= remaining_capacity
           THEN /\ m_overflow' = TRUE
                /\ UNCHANGED <<m_buffer, m_position, oob>>
                /\ Observe(Call("log_raw", data, 0), FALSE)
           ELSE /\ m_buffer' = Memcpy(m_buffer, m_position, data)
                /\ oob' = (oob \/ OutOfBounds(m_position, size))
                /\ m_position' = m_position + size
                /\ UNCHANGED m_overflow
                /\ Observe(Call("log_raw", data, 0), TRUE)
        /\ UNCHANGED <<m_capacity, m_int_format>>

\* bool Logger::log(const uint8_t* data, std::size_t size)
LogRaw(data) ==
    LET size == Len(data)
    IN  /\ IF size > remaining_capacity
           THEN /\ m_overflow' = TRUE
                /\ UNCHANGED <<m_buffer, m_position, oob>>
                /\ Observe(Call("log_raw", data, 0), FALSE)
           ELSE /\ m_buffer' = Memcpy(m_buffer, m_position, data)
                /\ oob' = (oob \/ OutOfBounds(m_position, size))
                /\ m_position' = m_position + size
                /\ UNCHANGED m_overflow
                /\ Observe(Call("log_raw", data, 0), TRUE)
        /\ UNCHANGED <<m_capacity, m_int_format>>

\* a variant that forgets the terminator
StrTotalSize_NoTerminator(str) == Len(str)

\* const std::size_t total_size = str.size() + 1;
StrTotalSize(str) == Len(str) + 1

\* a variant that rewinds to the start of the buffer when the string does not fit
LogStr_RewindingOnOverflow(str) ==
    LET total_size == StrTotalSize(str)
    IN  /\ IF total_size > remaining_capacity
           THEN /\ m_overflow' = TRUE
                /\ m_position' = 0
                /\ UNCHANGED <<m_buffer, oob>>
                /\ Observe(Call("log_str", str, 0), FALSE)
           ELSE /\ m_buffer' = Store(Memcpy(m_buffer, m_position, str),
                                     m_position + Len(str), NUL)
                /\ oob' = (oob \/ OutOfBounds(m_position, total_size))
                /\ m_position' = m_position + total_size
                /\ UNCHANGED m_overflow
                /\ Observe(Call("log_str", str, 0), TRUE)
        /\ UNCHANGED <<m_capacity, m_int_format>>

\* a variant that raises the overflow flag when a string fills the buffer
LogStr_FlaggingWhenFull(str) ==
    LET total_size == StrTotalSize(str)
    IN  /\ IF total_size > remaining_capacity
           THEN /\ m_overflow' = TRUE
                /\ UNCHANGED <<m_buffer, m_position, oob>>
                /\ Observe(Call("log_str", str, 0), FALSE)
           ELSE /\ m_buffer' = Store(Memcpy(m_buffer, m_position, str),
                                     m_position + Len(str), NUL)
                /\ oob' = (oob \/ OutOfBounds(m_position, total_size))
                /\ m_position' = m_position + total_size
                /\ m_overflow' = (m_overflow \/ total_size = remaining_capacity)
                /\ Observe(Call("log_str", str, 0), TRUE)
        /\ UNCHANGED <<m_capacity, m_int_format>>

\* bool Logger::log(std::string_view str)
LogStr(str) ==
    LET total_size == StrTotalSize(str)
    IN  /\ IF total_size > remaining_capacity
           THEN /\ m_overflow' = TRUE
                /\ UNCHANGED <<m_buffer, m_position, oob>>
                /\ Observe(Call("log_str", str, 0), FALSE)
           ELSE /\ m_buffer' = Store(Memcpy(m_buffer, m_position, str),
                                     m_position + Len(str), NUL)
                /\ oob' = (oob \/ OutOfBounds(m_position, total_size))
                /\ m_position' = m_position + total_size
                /\ UNCHANGED m_overflow
                /\ Observe(Call("log_str", str, 0), TRUE)
        /\ UNCHANGED <<m_capacity, m_int_format>>

\* a variant that forgets the terminator
FmtTotalSize_NoTerminator(length) == length

\* a variant that asks for one byte more than the text and its terminator
FmtTotalSize_TwoTerminators(length) == length + 2

\* const std::size_t total_size = length + 1;
FmtTotalSize(length) == length + 1

\* bool Logger::log_formatted_string(const char* str, std::size_t length),
\* reached from log(T value) alone, whose call is c
LogFormattedString(str, c) ==
    LET length == Len(str)
        total_size == FmtTotalSize(length)
    IN  IF total_size > remaining_capacity
        THEN /\ m_overflow' = TRUE
             /\ UNCHANGED <<m_buffer, m_position, oob>>
             /\ Observe(c, FALSE)
        ELSE /\ m_buffer' = Store(Memcpy(m_buffer, m_position, str),
                                  m_position + length, NUL)
             /\ oob' = (oob \/ OutOfBounds(m_position, total_size))
             /\ m_position' = m_position + total_size
             /\ UNCHANGED m_overflow
             /\ Observe(c, TRUE)

\* the switch on m_int_format of log(T value): what it puts at temp_buffer
IntPrefix(fmt) ==
    CASE fmt = "Hex" -> <<Char0, Charx>>
      [] fmt = "HEX" -> <<Char0, CharX>>
      [] fmt = "Oct" -> <<Char0>>
      [] OTHER -> <<>>

\* the switch on m_int_format of log(T value): the base it selects
IntBase(fmt) ==
    CASE fmt = "Hex" -> 16
      [] fmt = "HEX" -> 16
      [] fmt = "Oct" -> 8
      [] OTHER -> 10

\* std::to_chars of an unsigned magnitude: "0123456789abcdef..."[digit]
RECURSIVE ToCharsUnsigned(_, _)
ToCharsUnsigned(u, base) ==
    LET d == u % base
        ch == IF d < 10 THEN Char0 + d ELSE Chara + (d - 10)
    IN  IF u < base THEN <<ch>> ELSE Append(ToCharsUnsigned(u \div base, base), ch)

\* std::to_chars(first, last, value, base): a negative value of a signed type
\* gives '-' and the digits of its magnitude
ToChars(value, base) ==
    IF value < 0
    THEN <<Minus>> \o ToCharsUnsigned(0 - value, base)
    ELSE ToCharsUnsigned(value, base)

\* a variant that leaves the digits as std::to_chars gave them
ToUpperHex_Missing(text) == text

\* for (char* p = start; p < result.ptr; ++p) if (*p >= 'a' && *p <= 'f') *p = *p - 'a' + 'A';
ToUpperHex(text) ==
    [i \in 1..Len(text) |->
        IF text[i] >= Chara /\ text[i] <= Charf THEN text[i] - Chara + CharA ELSE text[i]]

\* temp_buffer[0 .. str_length) of log(T value)
FormatInt(value, fmt) ==
    LET text == ToChars(value, IntBase(fmt))
    IN  IntPrefix(fmt) \o (IF fmt = "HEX" THEN ToUpperHex(text) ELSE text)

\* a variant that falls back to decimal after each integer
LogInt_ResettingFormat(value) ==
    LET c == Call("log_int", <<>>, value)
        start == Len(IntPrefix(m_int_format))
        text == ToChars(value, IntBase(m_int_format))
    IN  /\ IF Len(text) > (TempBufferSize - 1) - start
           THEN /\ call' = c
                /\ ret' = FALSE
                /\ rejected' = TRUE
                /\ UNCHANGED <<m_buffer, m_position, m_overflow, oob, entries, sum>>
           ELSE LogFormattedString(FormatInt(value, m_int_format), c)
        /\ m_int_format' = "Dec"
        /\ UNCHANGED m_capacity

\* template<typename T> bool log(T value)
LogInt(value) ==
    LET c == Call("log_int", <<>>, value)
        start == Len(IntPrefix(m_int_format))
        text == ToChars(value, IntBase(m_int_format))
    IN  /\ IF Len(text) > (TempBufferSize - 1) - start
           THEN \* result.ec != std::errc{}
                /\ call' = c
                /\ ret' = FALSE
                /\ rejected' = TRUE
                /\ UNCHANGED <<m_buffer, m_position, m_overflow, oob, entries, sum>>
           ELSE LogFormattedString(FormatInt(value, m_int_format), c)
        /\ UNCHANGED <<m_capacity, m_int_format>>

\* the flags of a fresh std::ios: std::basic_ios::init sets skipws | dec
DummyFlags == [basefield |-> "dec", uppercase |-> FALSE]

\* manip(dummy): what the manipulator does to the stream's flags
ApplyManip(manip, flags) ==
    CASE manip = "dec" -> [flags EXCEPT !.basefield = "dec"]
      [] manip = "hex" -> [flags EXCEPT !.basefield = "hex"]
      [] manip = "oct" -> [flags EXCEPT !.basefield = "oct"]
      [] manip = "uppercase" -> [flags EXCEPT !.uppercase = TRUE]
      [] manip = "nouppercase" -> [flags EXCEPT !.uppercase = FALSE]
      [] OTHER -> flags

\* a variant whose case branch does not test for a hex format
ManipFormat_CaseInAnyBase(manip, fmt) ==
    LET old_flags == DummyFlags
        new_flags == ApplyManip(manip, old_flags)
    IN  IF old_flags.basefield # new_flags.basefield
        THEN CASE new_flags.basefield = "hex" ->
                      IF new_flags.uppercase THEN "HEX" ELSE "Hex"
               [] new_flags.basefield = "oct" -> "Oct"
               [] new_flags.basefield = "dec" -> "Dec"
               [] OTHER -> fmt
        ELSE IF old_flags.uppercase # new_flags.uppercase
             THEN (IF new_flags.uppercase THEN "HEX" ELSE "Hex")
             ELSE fmt

\* the m_int_format that operator<<(manip) leaves
ManipFormat(manip, fmt) ==
    LET old_flags == DummyFlags
        new_flags == ApplyManip(manip, old_flags)
    IN  IF old_flags.basefield # new_flags.basefield
        THEN CASE new_flags.basefield = "hex" ->
                      IF new_flags.uppercase THEN "HEX" ELSE "Hex"
               [] new_flags.basefield = "oct" -> "Oct"
               [] new_flags.basefield = "dec" -> "Dec"
               [] OTHER -> fmt
        ELSE IF old_flags.uppercase # new_flags.uppercase
             THEN IF fmt = "Hex" \/ fmt = "HEX"
                  THEN (IF new_flags.uppercase THEN "HEX" ELSE "Hex")
                  ELSE fmt
             ELSE fmt

\* Logger& operator<<(std::ios_base& (*manip)(std::ios_base&))
StreamManip(manip) ==
    /\ m_int_format' = ManipFormat(manip, m_int_format)
    /\ call' = [Call("manip", <<>>, 0) EXCEPT !.manip = manip]
    /\ ret' = "self"
    /\ UNCHANGED <<m_buffer, m_capacity, m_position, m_overflow, oob, entries, sum, rejected>>

\* a variant that leaves the overflow flag set
Reset_KeepingOverflow ==
    /\ m_position' = 0
    /\ UNCHANGED m_overflow
    /\ call' = Call("reset", <<>>, 0)
    /\ ret' = "void"
    /\ entries' = <<>>
    /\ sum' = 0
    /\ rejected' = FALSE
    /\ UNCHANGED <<m_buffer, m_capacity, m_int_format, oob>>

\* void reset()
Reset ==
    /\ m_position' = 0
    /\ m_overflow' = FALSE
    /\ call' = Call("reset", <<>>, 0)
    /\ ret' = "void"
    /\ entries' = <<>>
    /\ sum' = 0
    /\ rejected' = FALSE
    /\ UNCHANGED <<m_buffer, m_capacity, m_int_format, oob>>

\* a variant that is ignored once the overflow flag is set
SetIntFormat_IgnoredWhenOverflowed(format) ==
    /\ m_int_format' = IF m_overflow THEN m_int_format ELSE format
    /\ call' = [Call("set_int_format", <<>>, 0) EXCEPT !.fmt = format]
    /\ ret' = "self"
    /\ UNCHANGED <<m_buffer, m_capacity, m_position, m_overflow, oob, entries, sum, rejected>>

\* Logger& set_int_format(IntFormat format)
SetIntFormat(format) ==
    /\ m_int_format' = format
    /\ call' = [Call("set_int_format", <<>>, 0) EXCEPT !.fmt = format]
    /\ ret' = "self"
    /\ UNCHANGED <<m_buffer, m_capacity, m_position, m_overflow, oob, entries, sum, rejected>>

Next ==
    \/ \E data \in RawInputs : LogRaw(data)
    \/ \E str \in StrInputs : LogStr(str)
    \/ \E value \in IntInputs : LogInt(value)
    \/ Reset
    \/ \E format \in IntFormat : SetIntFormat(format)
    \/ \E manip \in Manips : StreamManip(manip)

Spec == Init /\ [][Next]_vars

(***************************************************************************)
(* The conversion of log(T value) over a range of values: a Logger is      *)
(* constructed, given a format, and logs one integer.                      *)
(***************************************************************************)
InitConv == \E fill \in FillBytes : Construct(ConvCap, fill)

LogFirstInt(value) ==
    /\ m_position = 0
    /\ LogInt(value)

NextConv ==
    \/ \E format \in IntFormat : SetIntFormat(format)
    \/ \E value \in ConvInputs : LogFirstInt(value)

SpecConv == InitConv /\ [][NextConv]_vars

(***************************************************************************)
(* The stream insertion operators: Logger& operator<<(...) for a byte-span  *)
(* pair, BinaryData, text and integers.  Each calls log() on its argument,  *)
(* drops the bool and returns *this.                                       *)
(***************************************************************************)
StreamAppends == {"shl_raw", "shl_str", "shl_int"}

\* the log() call that an operator<< call is documented to stand for
LogCallOf(c) ==
    [c EXCEPT !.kind = CASE c.kind = "shl_raw" -> "log_raw"
                         [] c.kind = "shl_str" -> "log_str"
                         [] c.kind = "shl_int" -> "log_int"
                         [] OTHER -> c.kind]

StreamCall(kind, data, value) ==
    [Call(kind, data, value) EXCEPT !.fmt = IF kind = "shl_int" THEN m_int_format ELSE "Dec"]

\* the bookkeeping of an operator<< whose log() returned r: the caller is
\* handed *this
ObserveDiscarding(c, r) ==
    /\ call' = c
    /\ ret' = "self"
    /\ sum' = IF r = TRUE THEN sum + RequiredSize(LogCallOf(c)) ELSE sum
    /\ entries' = IF r = TRUE /\ Payload(LogCallOf(c)) # <<>>
                  THEN Append(entries, Payload(LogCallOf(c))) ELSE entries
    /\ rejected' = (rejected \/ r = FALSE)

\* operator<<(const std::pair<const uint8_t*, std::size_t>&) and
\* operator<<(const BinaryData&): log(data, size); return *this;
StreamRaw(data) ==
    LET size == Len(data)
        c == StreamCall("shl_raw", data, 0)
    IN  /\ IF size > remaining_capacity
           THEN /\ m_overflow' = TRUE
                /\ UNCHANGED <<m_buffer, m_position, oob>>
                /\ ObserveDiscarding(c, FALSE)
           ELSE /\ m_buffer' = Memcpy(m_buffer, m_position, data)
                /\ oob' = (oob \/ OutOfBounds(m_position, size))
                /\ m_position' = m_position + size
                /\ UNCHANGED m_overflow
                /\ ObserveDiscarding(c, TRUE)
        /\ UNCHANGED <<m_capacity, m_int_format>>

\* a variant that writes nothing once the overflow flag is set
StreamStr_StoppingOnOverflow(str) ==
    LET total_size == StrTotalSize(str)
        c == StreamCall("shl_str", str, 0)
    IN  /\ IF m_overflow
           THEN /\ UNCHANGED <<m_buffer, m_position, m_overflow, oob>>
                /\ ObserveDiscarding(c, FALSE)
           ELSE IF total_size > remaining_capacity
           THEN /\ m_overflow' = TRUE
                /\ UNCHANGED <<m_buffer, m_position, oob>>
                /\ ObserveDiscarding(c, FALSE)
           ELSE /\ m_buffer' = Store(Memcpy(m_buffer, m_position, str),
                                     m_position + Len(str), NUL)
                /\ oob' = (oob \/ OutOfBounds(m_position, total_size))
                /\ m_position' = m_position + total_size
                /\ UNCHANGED m_overflow
                /\ ObserveDiscarding(c, TRUE)
        /\ UNCHANGED <<m_capacity, m_int_format>>

\* operator<<(std::string_view), operator<<(const char*) and
\* operator<<(const std::string&): log(str); return *this;
StreamStr(str) ==
    LET total_size == StrTotalSize(str)
        c == StreamCall("shl_str", str, 0)
    IN  /\ IF total_size > remaining_capacity
           THEN /\ m_overflow' = TRUE
                /\ UNCHANGED <<m_buffer, m_position, oob>>
                /\ ObserveDiscarding(c, FALSE)
           ELSE /\ m_buffer' = Store(Memcpy(m_buffer, m_position, str),
                                     m_position + Len(str), NUL)
                /\ oob' = (oob \/ OutOfBounds(m_position, total_size))
                /\ m_position' = m_position + total_size
                /\ UNCHANGED m_overflow
                /\ ObserveDiscarding(c, TRUE)
        /\ UNCHANGED <<m_capacity, m_int_format>>

\* template<typename T> Logger& operator<<(T value): log(value); return *this;
StreamInt(value) ==
    LET c == StreamCall("shl_int", <<>>, value)
        start == Len(IntPrefix(m_int_format))
        text == ToChars(value, IntBase(m_int_format))
        str == FormatInt(value, m_int_format)
        total_size == FmtTotalSize(Len(str))
    IN  /\ IF Len(text) > (TempBufferSize - 1) - start
           THEN \* result.ec != std::errc{}
                /\ UNCHANGED <<m_buffer, m_position, m_overflow, oob>>
                /\ ObserveDiscarding(c, FALSE)
           ELSE IF total_size > remaining_capacity
           THEN /\ m_overflow' = TRUE
                /\ UNCHANGED <<m_buffer, m_position, oob>>
                /\ ObserveDiscarding(c, FALSE)
           ELSE /\ m_buffer' = Store(Memcpy(m_buffer, m_position, str),
                                     m_position + Len(str), NUL)
                /\ oob' = (oob \/ OutOfBounds(m_position, total_size))
                /\ m_position' = m_position + total_size
                /\ UNCHANGED m_overflow
                /\ ObserveDiscarding(c, TRUE)
        /\ UNCHANGED <<m_capacity, m_int_format>>

InitStream == \E size \in 0..StreamCap, fill \in FillBytes : Construct(size, fill)

NextStream ==
    \/ \E data \in RawInputs : LogRaw(data)
    \/ \E str \in StrInputs : LogStr(str)
    \/ \E value \in IntInputs : LogInt(value)
    \/ \E data \in RawInputs : StreamRaw(data)
    \/ \E str \in StrInputs : StreamStr(str)
    \/ \E value \in IntInputs : StreamInt(value)
    \/ Reset
    \/ \E format \in IntFormat : SetIntFormat(format)

SpecStream == InitStream /\ [][NextStream]_vars

(***************************************************************************)
(* log() with std::size_t as an unsigned integer of SizeBits bits: sums of  *)
(* sizes are taken modulo 2^SizeBits.  A store outside the buffer is        *)
(* undefined behaviour: the model records it in oob, lets the call return   *)
(* either value, and takes no step after it.                                *)
(***************************************************************************)
\* the number of values of std::size_t
SizeMod == Pow(2, SizeBits)

\* a + b in std::size_t
SizeAdd(a, b) == (a + b) % SizeMod

\* the strings and byte arrays a caller passes: the short ones, and one of the
\* greatest length std::size_t can state
WrapStrInputs == StrInputs \cup {[i \in 1..(SizeMod - 1) |-> CharA + (i - 1)]}

WrapRawInputs == RawInputs \cup {[i \in 1..(SizeMod - 1) |-> i]}

\* bool Logger::log(const uint8_t* data, std::size_t size)
LogRawWrapping(data) ==
    LET size == Len(data)
        c == Call("log_raw", data, 0)
    IN  /\ ~oob
        /\ IF size > remaining_capacity
           THEN /\ m_overflow' = TRUE
                /\ UNCHANGED <<m_buffer, m_position, oob>>
                /\ Observe(c, FALSE)
           ELSE /\ m_buffer' = Memcpy(m_buffer, m_position, data)
                /\ oob' = OutOfBounds(m_position, size)
                /\ m_position' = SizeAdd(m_position, size)
                /\ UNCHANGED m_overflow
                /\ IF OutOfBounds(m_position, size)
                   THEN \E r \in BOOLEAN : Observe(c, r)
                   ELSE Observe(c, TRUE)
        /\ UNCHANGED <<m_capacity, m_int_format>>

\* bool Logger::log(std::string_view str)
LogStrWrapping(str) ==
    LET size == Len(str)
        total_size == SizeAdd(size, 1)
        terminator == SizeAdd(m_position, size)
        outside == OutOfBounds(m_position, size) \/ terminator >= m_capacity
        c == Call("log_str", str, 0)
    IN  /\ ~oob
        /\ IF total_size > remaining_capacity
           THEN /\ m_overflow' = TRUE
                /\ UNCHANGED <<m_buffer, m_position, oob>>
                /\ Observe(c, FALSE)
           ELSE /\ m_buffer' = Store(Memcpy(m_buffer, m_position, str), terminator, NUL)
                /\ oob' = outside
                /\ m_position' = SizeAdd(m_position, total_size)
                /\ UNCHANGED m_overflow
                /\ IF outside
                   THEN \E r \in BOOLEAN : Observe(c, r)
                   ELSE Observe(c, TRUE)
        /\ UNCHANGED <<m_capacity, m_int_format>>

ResetDefined ==
    /\ ~oob
    /\ Reset

InitWrap == \E size \in 0..WrapCap, fill \in FillBytes : Construct(size, fill)

NextWrap ==
    \/ \E data \in WrapRawInputs : LogRawWrapping(data)
    \/ \E str \in WrapStrInputs : LogStrWrapping(str)
    \/ ResetDefined

SpecWrap == InitWrap /\ [][NextWrap]_vars

(***************************************************************************)
(* Properties.  In a step that changes the state, call' is the call that   *)
(* made the step and ret' what it returned; the unprimed variables are the *)
(* state the call was made in.                                             *)
(***************************************************************************)
Commits == call'.kind \in Appends /\ ret' = TRUE

\* C1: an append (raw, text or integer) whose required size exceeds
\* remaining_capacity() returns false, leaves has_overflowed() true, and leaves
\* bytes_written() and every byte of the buffer as they were.
C1_OversizedAppendIsRejectedWhole ==
    [][(call'.kind \in Appends /\ RequiredSize(call') > remaining_capacity)
        => /\ ret' = FALSE
           /\ has_overflowed' = TRUE
           /\ bytes_written' = bytes_written
           /\ m_buffer' = m_buffer]_vars

\* an integer append has been rejected with entries already in the buffer and
\* some room, too little, left
C1_Witness ==
    /\ call.kind = "log_int"
    /\ ret = FALSE
    /\ m_overflow
    /\ m_position > 0
    /\ m_position < m_capacity

\* C2: in every reachable state 0 <= position <= capacity, and no append has
\* stored a byte at an index >= capacity.
C2_PositionWithinCapacity ==
    /\ m_position >= 0
    /\ m_position <= m_capacity
    /\ ~oob

\* the largest buffer has been filled to its last byte and a further append rejected
C2_Witness ==
    /\ m_capacity = MaxCap
    /\ m_position = m_capacity
    /\ Len(entries) >= 2
    /\ call.kind \in Appends
    /\ ret = FALSE

\* C3: once has_overflowed() is true it stays true across every call that is not
\* reset(): later appends that succeed, set_int_format and manipulators included.
C3_OverflowIsSticky ==
    [][(m_overflow /\ call'.kind # "reset") => m_overflow']_vars

\* an append has succeeded after a rejected one, and the flag is still set
C3_Witness ==
    /\ m_overflow
    /\ call.kind = "log_str"
    /\ ret = TRUE

\* C4: bytes_written() is the sum of the required sizes of the appends that
\* returned true since construction or the last reset() (len for raw, len + 1 for
\* text, the length of the integer's text + 1 for an integer, its sign counted),
\* and remaining_capacity() == capacity - bytes_written().
C4_BytesWrittenIsSumOfSizes ==
    /\ bytes_written = sum
    /\ remaining_capacity = m_capacity - bytes_written

\* several appends have succeeded, an integer last, and one has been rejected
C4_Witness ==
    /\ Len(entries) >= 2
    /\ rejected
    /\ call.kind = "log_int"
    /\ ret = TRUE
    /\ sum > 2

\* C5: reset() gives position 0, has_overflowed() false, remaining_capacity()
\* == capacity, and leaves int_format and every byte of the buffer as they were;
\* the append that follows it stores its bytes from offset 0.
C5_ResetRewindsOnly ==
    [][/\ call'.kind = "reset"
            => /\ m_position' = 0
               /\ has_overflowed' = FALSE
               /\ remaining_capacity' = m_capacity'
               /\ m_int_format' = m_int_format
               /\ m_buffer' = m_buffer
       /\ (call.kind = "reset" /\ Commits)
            => /\ Len(Payload(call')) <= m_capacity
               /\ \A i \in 1..Len(Payload(call')) : m_buffer'[i - 1] = Payload(call')[i]
      ]_vars

\* reset() has just been called on a Logger that had overflowed, with a format
\* other than Dec and bytes of earlier entries still in the buffer
C5_Witness ==
    /\ call.kind = "reset"
    /\ m_position = 0
    /\ m_int_format = "Oct"
    /\ m_capacity > 1
    /\ m_buffer[0] = CharA
    /\ m_buffer[1] = NUL

\* C6: a successful raw append of b[0..n-1] at position p stores b[i] at p + i,
\* stores no terminator and sets position to p + n; a successful text append of
\* s of length n stores s[i] at p + i, 0x00 at p + n, and sets position to
\* p + n + 1.
C6_AppendStoresItsPayload ==
    [][/\ (Commits /\ call'.kind = "log_raw")
            => LET p == m_position
                   n == Len(call'.data)
               IN  /\ m_position' = p + n
                   /\ p + n <= m_capacity
                   /\ \A i \in 0..(n - 1) : m_buffer'[p + i] = call'.data[i + 1]
                   /\ (p + n < m_capacity => m_buffer'[p + n] = m_buffer[p + n])
       /\ (Commits /\ call'.kind = "log_str")
            => LET p == m_position
                   n == Len(call'.data)
               IN  /\ m_position' = p + n + 1
                   /\ p + n + 1 <= m_capacity
                   /\ \A i \in 0..(n - 1) : m_buffer'[p + i] = call'.data[i + 1]
                   /\ m_buffer'[p + n] = NUL
      ]_vars

\* the longest string has been appended behind an earlier entry
C6_Witness ==
    /\ call.kind = "log_str"
    /\ ret = TRUE
    /\ Len(call.data) = MaxLen
    /\ m_position > Len(call.data) + 1
    /\ m_buffer[m_position - 1] = NUL
    /\ m_buffer[m_position - 2] = CharA + (MaxLen - 1)

RECURSIVE TotalLen(_)
TotalLen(es) == IF es = <<>> THEN 0 ELSE Len(Head(es)) + TotalLen(Tail(es))

\* where the k-th entry committed since the last reset() starts
StartOf(k) == TotalLen(SubSeq(entries, 1, k - 1))

\* C7: the entries committed since construction or the last reset() lie back to
\* back: the k-th starts at the sum of the sizes of the earlier ones, the
\* position is the end of the last, and the bytes of every one of them are
\* still in place.
C7_EntriesBackToBack ==
    /\ m_position = TotalLen(entries)
    /\ \A k \in 1..Len(entries) :
        \A i \in 1..Len(entries[k]) :
            /\ StartOf(k) + i - 1 < m_capacity
            /\ m_buffer[StartOf(k) + i - 1] = entries[k][i]

\* a raw entry, a text entry and an integer entry lie at offsets 0, 1 and 2
C7_Witness ==
    /\ entries = << <<1>>, <<NUL>>, <<Char0, NUL>> >>
    /\ call.kind = "log_int"
    /\ m_position = 4

\* the value of a digit character, -1 when it is none
DigitValue(ch, upper) ==
    IF ch >= Char0 /\ ch <= Char0 + 9 THEN ch - Char0
    ELSE IF ~upper /\ ch >= Chara /\ ch <= Charf THEN ch - Chara + 10
    ELSE IF upper /\ ch >= CharA /\ ch <= CharA + 5 THEN ch - CharA + 10
    ELSE 0 - 1

\* the number a string of base-b digits denotes, -1 when it denotes none
RECURSIVE ParseDigits(_, _, _)
ParseDigits(digits, b, upper) ==
    IF digits = <<>> THEN 0
    ELSE LET d == DigitValue(digits[Len(digits)], upper)
             rest == ParseDigits(SubSeq(digits, 1, Len(digits) - 1), b, upper)
         IN  IF d < 0 \/ d >= b \/ rest < 0 THEN 0 - 1 ELSE rest * b + d

\* text is prefix, sign and digits, and the digits denote n in the format's base
\* and case with no leading zero
IsRendering(text, prefix, sign, n, fmt) ==
    LET k == Len(prefix) + Len(sign)
        digits == SubSeq(text, k + 1, Len(text))
    IN  /\ Len(text) > k
        /\ SubSeq(text, 1, k) = prefix \o sign
        /\ ParseDigits(digits, RefBase(fmt), fmt = "HEX") = n
        /\ (Len(digits) = 1 \/ digits[1] # Char0)
        /\ digits = RefDigits(n, RefBase(fmt), IF fmt = "HEX" THEN UpperDigits ELSE LowerDigits)

\* what the step stored between the old and the new position, the last byte left out
Stored == [i \in 1..(m_position' - m_position - 1) |-> m_buffer'[m_position + i - 1]]

\* C8: a successful integer append stores the text the format selects and one
\* 0x00: Dec gives base-10 digits, no prefix, and '-' before the digits of a
\* negative value; Hex gives "0x" and lowercase base-16 digits, HEX "0X" and
\* uppercase base-16 digits, Oct "0" and base-8 digits of a non-negative value;
\* the position advances by the length of that text plus one.
C8_IntegerText ==
    [][(Commits /\ call'.kind = "log_int" /\ (call'.value >= 0 \/ call'.fmt = "Dec"))
        => LET v == call'.value
               f == call'.fmt
               n == m_position' - m_position - 1
           IN  /\ n >= 1
               /\ m_position' <= m_capacity
               /\ IsRendering(Stored, RefPrefix(f), SignOf(v), Abs(v), f)
               /\ m_buffer'[m_position + n] = NUL
               /\ n = Len(RefPrefix(f)) + Len(SignOf(v)) + NumDigits(Abs(v), RefBase(f))
               /\ (v = 255 /\ f = "Dec") => Stored = <<50, 53, 53>>
               /\ (v = 255 /\ f = "Hex") => Stored = <<48, 120, 102, 102>>
               /\ (v = 255 /\ f = "HEX") => Stored = <<48, 88, 70, 70>>
               /\ (v = 255 /\ f = "Oct") => Stored = <<48, 51, 55, 55>>
               /\ (v = 64 /\ f = "Oct") => Stored = <<48, 49, 48, 48>>
               /\ (v = 0 - 123 /\ f = "Dec") => Stored = <<45, 49, 50, 51>>
      ]_vars

\* 255 has been logged as "0XFF"
C8_Witness ==
    /\ call.kind = "log_int"
    /\ call.value = 255
    /\ call.fmt = "HEX"
    /\ ret = TRUE
    /\ m_position = 5
    /\ m_buffer[3] = CharA + 5

\* C9: a negative value logged under Hex, HEX or Oct is stored as the prefix and
\* the digits of its two's-complement bit pattern of IntBits bits, with no '-';
\* only Dec stores a '-'.
C9_NegativeIsTwosComplement ==
    [][(Commits /\ call'.kind = "log_int" /\ call'.fmt # "Dec")
        => LET v == call'.value
               f == call'.fmt
               pattern == IF v < 0 THEN v + Pow(2, IntBits) ELSE v
           IN  /\ \A i \in DOMAIN Stored : Stored[i] # Minus
               /\ IsRendering(Stored, RefPrefix(f), <<>>, pattern, f)
      ]_vars

\* C10 as stated: once an append has been rejected, every later append returns
\* false and leaves position and buffer as they were, until reset().
C10_EveryLaterAppendFails ==
    [][(m_overflow /\ call'.kind \in Appends)
        => /\ ret' = FALSE
           /\ m_position' = m_position
           /\ m_buffer' = m_buffer]_vars

\* C10 as the code has it: once an append has been rejected, a later append is
\* rejected (returns false, position and buffer as they were) exactly when its
\* required size exceeds remaining_capacity(); one that fits is committed and
\* returns true; has_overflowed() stays true either way.
C10_LaterAppendFailsIffTooLarge ==
    [][(m_overflow /\ call'.kind \in Appends)
        => /\ m_overflow'
           /\ (ret' = FALSE) <=> (RequiredSize(call') > m_capacity - m_position)
           /\ (ret' = FALSE) => (m_position' = m_position /\ m_buffer' = m_buffer)
           /\ (ret' = TRUE) => (m_position' = m_position + RequiredSize(call'))]_vars

\* a raw append has been committed after a rejected append
C10_Witness ==
    /\ m_overflow
    /\ rejected
    /\ call.kind = "log_raw"
    /\ Len(call.data) > 0
    /\ ret = TRUE

\* C11 as stated: a Logger constructed with capacity 0 rejects every append, a
\* raw append of 0 bytes and a text append of the empty string included: each
\* returns false, sets has_overflowed() and leaves position at 0.
C11_ZeroCapacityRejectsAll ==
    [][(m_capacity = 0 /\ call'.kind \in Appends)
        => /\ ret' = FALSE
           /\ has_overflowed' = TRUE
           /\ m_position' = 0]_vars

\* C11 as the code has it: with capacity 0 every text append, every integer
\* append and every raw append of at least one byte returns false and sets
\* has_overflowed(); a raw append of 0 bytes returns true and leaves the flag as
\* it was; position stays 0 throughout.
C11_ZeroCapacityRejectsAllButEmptyRaw ==
    [][(m_capacity = 0 /\ call'.kind \in Appends)
        => /\ m_position' = 0
           /\ (call'.kind = "log_raw" /\ Len(call'.data) = 0)
                => (ret' = TRUE /\ has_overflowed' = has_overflowed)
           /\ (call'.kind # "log_raw" \/ Len(call'.data) > 0)
                => (ret' = FALSE /\ has_overflowed' = TRUE)]_vars

\* with capacity 0, the empty string has been rejected
C11_Witness ==
    /\ m_capacity = 0
    /\ call.kind = "log_str"
    /\ call.data = <<>>
    /\ ret = FALSE
    /\ m_overflow
    /\ m_position = 0

BaseManips == {"dec", "hex", "oct"}

CaseManips == {"uppercase", "nouppercase"}

HexFormats == {"Hex", "HEX"}

\* C12: a base directive sets int_format to its base from every current
\* format: dec yields Dec, oct yields Oct, hex yields a hex format.
C12_BaseDirectiveSetsBase ==
    [][call'.kind = "manip"
        => /\ call'.manip = "dec" => m_int_format' = "Dec"
           /\ call'.manip = "oct" => m_int_format' = "Oct"
           /\ call'.manip = "hex" => m_int_format' \in HexFormats]_vars

\* C13: in a hex format the uppercase directive yields HEX and the nouppercase
\* directive yields Hex.
C13_CaseDirectiveFlipsCaseInHex ==
    [][(call'.kind = "manip" /\ m_int_format \in HexFormats)
        => /\ call'.manip = "uppercase" => m_int_format' = "HEX"
           /\ call'.manip = "nouppercase" => m_int_format' = "Hex"]_vars

\* C14: the hex directive applied while int_format is HEX, or straight after
\* the uppercase directive, yields HEX.
C14_HexWhileUppercaseYieldsHEX ==
    [][(/\ call'.kind = "manip"
        /\ call'.manip = "hex"
        /\ \/ m_int_format = "HEX"
           \/ (call.kind = "manip" /\ call.manip = "uppercase"))
        => m_int_format' = "HEX"]_vars

\* C15: a case directive applied while int_format is Dec or Oct leaves
\* int_format unchanged.
C15_CaseDirectiveNoOpInDecOct ==
    [][(/\ call'.kind = "manip"
        /\ call'.manip \in CaseManips
        /\ m_int_format \in {"Dec", "Oct"})
        => m_int_format' = m_int_format]_vars

\* the uppercase directive has just been applied to a logger in Oct, and the
\* nouppercase directive to one in Dec
C15_Witness ==
    /\ call.kind = "manip"
    /\ \/ (call.manip = "uppercase" /\ m_int_format = "Oct")
       \/ (call.manip = "nouppercase" /\ m_int_format = "Dec")

\* C16: a directive or set_int_format(f) applied straight after the same one
\* changes nothing more; and from a hex format, uppercase then nouppercase, and
\* nouppercase then uppercase, end in the format they started from.
C16_IdempotentAndCaseRoundTrip ==
    [][/\ (/\ call.kind = "manip"
           /\ call'.kind = "manip"
           /\ call'.manip = call.manip) => m_int_format' = m_int_format
       /\ (/\ call.kind = "set_int_format"
           /\ call'.kind = "set_int_format"
           /\ call'.fmt = call.fmt) => m_int_format' = m_int_format
       /\ m_int_format \in HexFormats
            => /\ ManipFormat("nouppercase", ManipFormat("uppercase", m_int_format))
                    = m_int_format
               /\ ManipFormat("uppercase", ManipFormat("nouppercase", m_int_format))
                    = m_int_format]_vars

\* C17: from every int_format, a base directive followed by a case directive
\* leaves the same int_format as the case directive followed by the base
\* directive.
C17_BaseAndCaseCommute ==
    \A b \in BaseManips, c \in CaseManips :
        ManipFormat(c, ManipFormat(b, m_int_format))
            = ManipFormat(b, ManipFormat(c, m_int_format))

\* the region after bytes is copied to position pos of buf
WithBytesAt(buf, pos, bytes) ==
    [i \in DOMAIN buf |->
        IF pos <= i /\ i < pos + Len(bytes) THEN bytes[i - pos + 1] ELSE buf[i]]

\* C18: operator<< with a byte-span, text or integer argument changes position,
\* overflow flag, int_format and region exactly as the corresponding log() call
\* does in the same state (commit the payload if it fits, whether or not the
\* flag is already set; otherwise set the flag and change nothing else); log()
\* returns whether it committed, operator<< returns the writer either way.
C18_StreamInsertionIsLog ==
    [][call'.kind \in (Appends \cup StreamAppends)
        => LET c == LogCallOf(call')
               n == RequiredSize(c)
               fits == n <= m_capacity - m_position
           IN  /\ c.fmt = (IF c.kind = "log_int" THEN m_int_format ELSE "Dec")
               /\ m_int_format' = m_int_format
               /\ m_position' = IF fits THEN m_position + n ELSE m_position
               /\ m_overflow' = IF fits THEN m_overflow ELSE TRUE
               /\ m_buffer' = IF fits THEN WithBytesAt(m_buffer, m_position, Payload(c))
                              ELSE m_buffer
               /\ ret' = IF call'.kind \in Appends THEN fits ELSE "self"]_vars

\* a chain has committed a text after a write was rejected: the flag is set,
\* and the text just inserted is in the region, ending at position
C18_Witness ==
    /\ call.kind = "shl_str"
    /\ ret = "self"
    /\ m_overflow
    /\ rejected
    /\ Len(call.data) = 1
    /\ m_position >= 2
    /\ m_position < m_capacity
    /\ m_buffer[m_position - 2] = call.data[1]
    /\ m_buffer[m_position - 1] = NUL

FormatChanges == {"set_int_format", "manip"}

\* C19: no raw, text or integer append, committed or rejected, changes
\* int_format; only set_int_format and a format directive change it; and a
\* committed integer append of a non-negative value stores the rendering in the
\* int_format that was current when it was called.
C19_FormatPersistsAcrossAppends ==
    [][/\ call'.kind \in Appends => m_int_format' = m_int_format
       /\ m_int_format' # m_int_format => call'.kind \in FormatChanges
       /\ (Commits /\ call'.kind = "log_int" /\ call'.value >= 0)
            => IsRendering(Stored, RefPrefix(m_int_format), <<>>, call'.value,
                           m_int_format)]_vars

\* an integer has been committed in Oct as the second entry at least, and the
\* format is still Oct
C19_Witness ==
    /\ call.kind = "log_int"
    /\ call.fmt = "Oct"
    /\ ret = TRUE
    /\ Len(entries) >= 2
    /\ m_int_format = "Oct"

\* C20: set_int_format(f) and every format directive leave position, overflow
\* flag, capacity and every byte of the region unchanged; set_int_format(f)
\* sets int_format to f, the oct directive sets Oct, the hex directive a hex
\* format and the uppercase directive takes a hex format to HEX, whether or not
\* the Logger has overflowed or is full.
C20_FormatChangeLeavesWriteState ==
    [][call'.kind \in FormatChanges
        => /\ m_position' = m_position
           /\ m_overflow' = m_overflow
           /\ m_capacity' = m_capacity
           /\ m_buffer' = m_buffer
           /\ call'.kind = "set_int_format" => m_int_format' = call'.fmt
           /\ (call'.kind = "manip" /\ call'.manip = "oct") => m_int_format' = "Oct"
           /\ (call'.kind = "manip" /\ call'.manip = "hex") => m_int_format' \in HexFormats
           /\ (call'.kind = "manip" /\ call'.manip = "uppercase" /\ m_int_format \in HexFormats)
                => m_int_format' = "HEX"]_vars

\* set_int_format(HEX) has taken effect on a full, overflowed Logger
C20_Witness ==
    /\ call.kind = "set_int_format"
    /\ call.fmt = "HEX"
    /\ m_int_format = "HEX"
    /\ m_overflow
    /\ m_capacity > 0
    /\ m_position = m_capacity

\* C21: straight after Logger(buffer, n): bytes_written() is 0,
\* has_overflowed() is false, remaining_capacity() is n, get_int_format() is
\* Dec, and the region is n bytes long and holds the bytes the caller supplied.
C21_FreshLogger ==
    call.kind = "Logger"
        => /\ bytes_written = 0
           /\ has_overflowed = FALSE
           /\ remaining_capacity = call.value
           /\ get_int_format = "Dec"
           /\ DOMAIN m_buffer = 0..(call.value - 1)
           /\ \A i \in DOMAIN m_buffer : m_buffer[i] = call.data[i + 1]

\* a Logger has just been constructed on a buffer of two bytes or more that
\* hold 0xCC
C21_Witness ==
    /\ call.kind = "Logger"
    /\ call.value >= 2
    /\ call.data[2] = 204
    /\ m_buffer[1] = 204
    /\ m_position = 0

\* C22: no append, set_int_format or format directive lowers bytes_written();
\* the only step after which bytes_written() is smaller than before is
\* reset(), and it leaves 0.
C22_PositionMonotoneButForReset ==
    [][/\ call'.kind # "reset" => bytes_written' >= bytes_written
       /\ bytes_written' < bytes_written
            => (call'.kind = "reset" /\ bytes_written' = 0)]_vars

\* reset() has taken the position back to 0 from 2 or more: the bytes 1, 2 of
\* a raw append are still in the region
C22_Witness ==
    /\ call.kind = "reset"
    /\ m_position = 0
    /\ m_capacity >= 2
    /\ m_buffer[0] = 1
    /\ m_buffer[1] = 2

\* C23: an append returns true exactly when its required size is at most
\* remaining_capacity() at the call; one that fits exactly commits, leaves
\* remaining_capacity() 0 and the overflow flag as it was; a text whose length
\* equals remaining_capacity() is rejected.
C23_AcceptedIffFits ==
    [][call'.kind \in Appends
        => LET n == RequiredSize(call')
               room == m_capacity - m_position
           IN  /\ ret' = (n <= room)
               /\ n = room => /\ ret' = TRUE
                              /\ m_capacity - m_position' = 0
                              /\ m_overflow' = m_overflow
               /\ (call'.kind = "log_str" /\ Len(call'.data) = room)
                    => (ret' = FALSE /\ m_overflow' = TRUE)]_vars

\* a text of one character or more, as long as the room left, has been rejected
C23_Witness ==
    /\ call.kind = "log_str"
    /\ ret = FALSE
    /\ Len(call.data) >= 1
    /\ Len(call.data) = m_capacity - m_position
    /\ m_overflow

\* C24: has_overflowed() is true only if an append has returned false since
\* construction or the last reset(); committed appends, set_int_format and
\* format directives never set it, filling the region exactly included.
C24_OverflowOnlyAfterRejection ==
    has_overflowed => rejected

\* two entries or more fill the region exactly, in a format other than Dec,
\* and the flag is clear
C24_Witness ==
    /\ m_capacity > 0
    /\ m_position = m_capacity
    /\ Len(entries) >= 2
    /\ m_int_format # "Dec"
    /\ ~rejected
    /\ ~m_overflow

\* C25: a committed append that moves the position from p to q leaves every
\* byte of the region below p and every byte from q on as it was; so does the
\* same append made through operator<<.
C25_AppendWritesOnlyItsBytes ==
    [][(Commits \/ call'.kind \in StreamAppends)
        => /\ DOMAIN m_buffer' = DOMAIN m_buffer
           /\ \A i \in DOMAIN m_buffer :
                (i < m_position \/ i >= m_position') => m_buffer'[i] = m_buffer[i]]_vars

\* the byte 1 has been committed behind the empty text in a region of three
\* bytes or more: the terminator before it and the caller's 0xCC after it are
\* there
C25_Witness ==
    /\ call.kind \in {"log_raw", "shl_raw"}
    /\ call.data = <<1>>
    /\ m_capacity >= 3
    /\ m_position = 2
    /\ Len(entries) = 2
    /\ m_buffer[0] = NUL
    /\ m_buffer[1] = 1
    /\ m_buffer[2] = 204

\* C26: with std::size_t of SizeBits bits, a text append whose length plus one
\* exceeds remaining_capacity() is rejected and changes neither position nor
\* region, whatever the length up to 2^SizeBits - 1; and in a committed raw
\* append position + size stays below 2^SizeBits and is the new position.
C26_CapacityCheckNeverWraps ==
    [][/\ (call'.kind = "log_str" /\ Len(call'.data) + 1 > m_capacity - m_position)
            => /\ ret' = FALSE
               /\ oob' = FALSE
               /\ m_position' = m_position
               /\ m_buffer' = m_buffer
       /\ (call'.kind = "log_raw" /\ Len(call'.data) > m_capacity - m_position)
            => /\ ret' = FALSE
               /\ oob' = FALSE
       /\ (call'.kind = "log_raw" /\ ret' = TRUE)
            => /\ m_position + Len(call'.data) < SizeMod
               /\ m_position' = m_position + Len(call'.data)]_vars

====
